---- MODULE Spec2Model ----
(***************************************************************************)
(* Model of src/app.py: the date pipeline (parse_fuzzy, has_time_part,     *)
(* build_response) and the batch transformer (format_endpoint with        *)
(* _get_by_path and _set_by_path).                                         *)
(*                                                                         *)
(* Strings are sequences of one-character strings, so that stripping,      *)
(* regular-expression search, parsing and formatting are computed on the   *)
(* characters.  A datetime is a record of its civil fields plus `aware`    *)
(* and `utcoffset` (minutes east of UTC; 0 when naive).  Microseconds are  *)
(* not modelled: every string of the input grammar has whole seconds.      *)
(*                                                                         *)
(* app.py:35 reads the module global ISO_DATE_ONLY, which app.py never     *)
(* binds.  The variable isoDateOnly holds that binding: "unbound" under    *)
(* Spec (the module as written: the lookup raises NameError), "pattern"    *)
(* under SpecStrict (the name bound to the YYYY-MM-DD pattern that         *)
(* spec.md 4.1 describes), which exposes the stages behind line 35.        *)
(***************************************************************************)
EXTENDS Integers, Sequences, FiniteSets, TLC

\* ------------------------------------------------------------------ bounds
MaxYear == 2025
MaxClock == 1
MaxItems == 2

\* ------------------------------------------------------------- characters
DigitChars == <<"0", "1", "2", "3", "4", "5", "6", "7", "8", "9">>

IsDigit(c) == \E i \in 1..10 : DigitChars[i] = c

DigitVal(c) == (CHOOSE i \in 1..10 : DigitChars[i] = c) - 1

Letters ==
    {"a", "b", "c", "d", "e", "f", "g", "h", "i", "j", "k", "l", "m", "n", "o",
     "p", "q", "r", "s", "t", "u", "v", "w", "x", "y", "z", "A", "B", "C", "D",
     "E", "F", "G", "H", "I", "J", "K", "L", "M", "N", "O", "P", "Q", "R", "S",
     "T", "U", "V", "W", "X", "Y", "Z", "_"}

\* \w of the re module: letters, digits and the underscore
IsWord(c) == IsDigit(c) \/ c \in Letters

\* str.isspace, as used by str.strip() and by \s
IsSpace(c) == c = " "

AllDigits(s, lo, hi) == \A i \in lo..hi : i \in 1..Len(s) /\ IsDigit(s[i])

RECURSIVE ToInt(_, _, _)
ToInt(s, lo, hi) ==
    IF hi < lo THEN 0 ELSE 10 * ToInt(s, lo, hi - 1) + DigitVal(s[hi])

CharAt(s, i) == IF i \in 1..Len(s) THEN s[i] ELSE ""

Pad2(n) == <<DigitChars[((n \div 10) % 10) + 1], DigitChars[(n % 10) + 1]>>

Pad4(n) == Pad2(n \div 100) \o Pad2(n % 100)

\* str.strip(): drop leading and trailing whitespace
RECURSIVE LStrip(_)
LStrip(s) == IF s # <<>> /\ IsSpace(Head(s)) THEN LStrip(Tail(s)) ELSE s

RECURSIVE RStrip(_)
RStrip(s) ==
    IF s # <<>> /\ IsSpace(s[Len(s)]) THEN RStrip(SubSeq(s, 1, Len(s) - 1)) ELSE s

strip(s) == RStrip(LStrip(s))

Contains(s, c) == \E i \in 1..Len(s) : s[i] = c

\* --------------------------------------------------------------- calendar
IsLeap(y) == (y % 4 = 0 /\ y % 100 # 0) \/ y % 400 = 0

DaysInMonth(y, m) ==
    IF m = 2 THEN (IF IsLeap(y) THEN 29 ELSE 28)
    ELSE IF m \in {4, 6, 9, 11} THEN 30 ELSE 31

\* datetime(...) raises ValueError outside these ranges
ValidDate(y, m, d) ==
    /\ y \in 1..9999
    /\ m \in 1..12
    /\ d >= 1
    /\ d <= DaysInMonth(y, m)

ValidTime(h, mi, s) == h \in 0..23 /\ mi \in 0..59 /\ s \in 0..59

Naive(y, m, d, h, mi, s) ==
    [year |-> y, month |-> m, day |-> d, hour |-> h, minute |-> mi,
     second |-> s, aware |-> FALSE, utcoffset |-> 0]

NoDt == Naive(0, 0, 0, 0, 0, 0)

NextDay(dt) ==
    IF dt.day < DaysInMonth(dt.year, dt.month)
    THEN [dt EXCEPT !.day = dt.day + 1]
    ELSE IF dt.month < 12
    THEN [dt EXCEPT !.month = dt.month + 1, !.day = 1]
    ELSE [dt EXCEPT !.year = dt.year + 1, !.month = 1, !.day = 1]

PrevDay(dt) ==
    IF dt.day > 1
    THEN [dt EXCEPT !.day = dt.day - 1]
    ELSE IF dt.month > 1
    THEN [dt EXCEPT !.month = dt.month - 1,
                    !.day = DaysInMonth(dt.year, dt.month - 1)]
    ELSE [dt EXCEPT !.year = dt.year - 1, !.month = 12, !.day = 31]

RECURSIVE AddDays(_, _)
AddDays(dt, k) ==
    IF k = 0 THEN dt
    ELSE IF k > 0 THEN AddDays(NextDay(dt), k - 1)
    ELSE AddDays(PrevDay(dt), k + 1)

\* timedelta arithmetic on the wall clock: dt + delta minutes
AddMinutes(dt, delta) ==
    LET total == dt.hour * 60 + dt.minute + delta
        days  == IF total >= 0 THEN total \div 1440
                 ELSE 0 - ((1439 - total) \div 1440)
        rest  == total - days * 1440
    IN  [AddDays(dt, days) EXCEPT !.hour = rest \div 60, !.minute = rest % 60]

\* ------------------------------------------------------------ time zones
\* zoneinfo keys of the model; none of them observes daylight saving time,
\* so each has one offset (minutes east of UTC)
ZoneOffset(key) ==
    CASE key = "UTC" -> 0
      [] key = "Asia/Tokyo" -> 540
      [] key = "America/Phoenix" -> 0 - 420
      [] OTHER -> 0

\* ZoneInfo(key) raises ZoneInfoNotFoundError for a key it does not know
ZoneKnown(key) == key \in {"UTC", "Asia/Tokyo", "America/Phoenix"}

\* dt.replace(tzinfo=zone): the wall clock is kept, the zone is overwritten
ReplaceTz(dt, off) == [dt EXCEPT !.aware = TRUE, !.utcoffset = off]

\* aware.astimezone(zone): the same instant on the wall clock of `zone`
AsTimezone(dt, off) ==
    [AddMinutes(dt, off - dt.utcoffset) EXCEPT !.aware = TRUE, !.utcoffset = off]

\* ------------------------------------------------------------- formatting
OffsetChars(off) ==
    LET a == IF off < 0 THEN 0 - off ELSE off
    IN  <<IF off < 0 THEN "-" ELSE "+">> \o Pad2(a \div 60) \o <<":">> \o Pad2(a % 60)

\* datetime.isoformat() with microsecond = 0
isoformat(dt) ==
    Pad4(dt.year) \o <<"-">> \o Pad2(dt.month) \o <<"-">> \o Pad2(dt.day)
    \o <<"T">> \o Pad2(dt.hour) \o <<":">> \o Pad2(dt.minute) \o <<":">>
    \o Pad2(dt.second)
    \o (IF dt.aware THEN OffsetChars(dt.utcoffset) ELSE <<>>)

EndsWith(s, suf) ==
    Len(s) >= Len(suf) /\ SubSeq(s, Len(s) - Len(suf) + 1, Len(s)) = suf

\* .replace("+00:00", "Z"): an isoformat() string holds "+" only in its offset
ReplaceUtcOffset(s) ==
    IF EndsWith(s, <<"+", "0", "0", ":", "0", "0">>)
    THEN SubSeq(s, 1, Len(s) - 6) \o <<"Z">>
    ELSE s

\* ----------------------------------------------------- regular expressions
\* \b at the gap before position p
Boundary(s, p) == IsWord(CharAt(s, p - 1)) # IsWord(CharAt(s, p))

Lower(c) ==
    CASE c = "A" -> "a" [] c = "P" -> "p" [] c = "M" -> "m" [] OTHER -> c

\* TIME_REGEX.search(s): \b(\d{1,2}:\d{2}(:\d{2})?\s*(am|pm)?)\b, re.I
TimeRegexSearch(s) ==
    \E i \in 1..Len(s) : \E n \in 1..2 :
        /\ Boundary(s, i)
        /\ AllDigits(s, i, i + n - 1)
        /\ CharAt(s, i + n) = ":"
        /\ AllDigits(s, i + n + 1, i + n + 2)
        /\ \E e2 \in {i + n + 3, i + n + 6} :
              /\ e2 = i + n + 6 =>
                    CharAt(s, i + n + 3) = ":" /\ AllDigits(s, i + n + 4, i + n + 5)
              /\ \E e3 \in e2..(Len(s) + 1) :
                    /\ \A k \in e2..(e3 - 1) : IsSpace(CharAt(s, k))
                    /\ \E e4 \in {e3, e3 + 2} :
                          /\ e4 = e3 + 2 =>
                                /\ Lower(CharAt(s, e3)) \in {"a", "p"}
                                /\ Lower(CharAt(s, e3 + 1)) = "m"
                          /\ Boundary(s, e4)

\* OFFSET_REGEX.search(s): (Z|[+\-]\d{2}:?\d{2})$
OffsetRegexSearch(s) ==
    LET n == Len(s)
    IN  \/ CharAt(s, n) = "Z"
        \/ CharAt(s, n - 4) \in {"+", "-"} /\ AllDigits(s, n - 3, n)
        \/ /\ CharAt(s, n - 5) \in {"+", "-"}
           /\ AllDigits(s, n - 4, n - 3)
           /\ CharAt(s, n - 2) = ":"
           /\ AllDigits(s, n - 1, n)

\* re.search(r"\b\d{4}\b", s)
YearRegexSearch(s) ==
    \E i \in 1..Len(s) :
        Boundary(s, i) /\ AllDigits(s, i, i + 3) /\ Boundary(s, i + 4)

\* The pattern spec.md 4.1 gives for StrictDateOnly: ^\d{4}-\d{2}-\d{2}$
StrictDatePattern(s) ==
    /\ Len(s) = 10
    /\ AllDigits(s, 1, 4) /\ s[5] = "-"
    /\ AllDigits(s, 6, 7) /\ s[8] = "-"
    /\ AllDigits(s, 9, 10)

\* ------------------------------------------------------- library parsers
Parsed(dt) == [ok |-> TRUE, dt |-> dt]

Declined == [ok |-> FALSE, dt |-> NoDt]

\* datetime.fromisoformat on a YYYY-MM-DD string: ValueError for a date that
\* is not on the calendar
fromisoformat(s) ==
    IF StrictDatePattern(s)
       /\ ValidDate(ToInt(s, 1, 4), ToInt(s, 6, 7), ToInt(s, 9, 10))
    THEN Parsed(Naive(ToInt(s, 1, 4), ToInt(s, 6, 7), ToInt(s, 9, 10), 0, 0, 0))
    ELSE Declined

\* int(b) of the digits b[lo..hi]: whitespace around the digits is accepted
PyIntOk(z, lo, hi) ==
    LET b == strip(SubSeq(z, lo, hi)) IN b # <<>> /\ AllDigits(b, 1, Len(b))

PyInt(z, lo, hi) == LET b == strip(SubSeq(z, lo, hi)) IN ToInt(b, 1, Len(b))

\* isoparser._parse_tzstr: Z, or a sign, int(tzstr[1:3]) hours and, in a
\* string of 5 or 6 characters, int() of the rest as minutes (after a colon
\* in fourth place, if there is one); ValueError otherwise
ParseTz(z) ==
    LET n     == Len(z)
        sign  == IF z[1] = "-" THEN 0 - 1 ELSE 1
        mFrom == IF z[4] = ":" THEN 5 ELSE 4
        okHM  == /\ n \in {3, 5, 6}
                 /\ z[1] \in {"+", "-"}
                 /\ PyIntOk(z, 2, 3)
                 /\ n # 3 => PyIntOk(z, mFrom, n)
        hh    == PyInt(z, 2, 3)
        mm    == IF n = 3 THEN 0 ELSE PyInt(z, mFrom, n)
    IN  IF z \in {<<"Z">>, <<"z">>} THEN [ok |-> TRUE, off |-> 0]
        ELSE IF okHM /\ hh <= 23 /\ mm <= 59
        THEN [ok |-> TRUE, off |-> sign * (hh * 60 + mm)]
        ELSE [ok |-> FALSE, off |-> 0]

\* dateutil.parser.isoparse on the extended format YYYY-MM-DD[?HH:MM[:SS][zone]]
\* (any one character separates date and time); anything else raises
\* ValueError, leading whitespace and whitespace after Z or +HH:MM included
IsoDateTime(s, hasSec, zoned, tz) ==
    LET sec == IF hasSec THEN ToInt(s, 18, 19) ELSE 0
    IN  IF /\ Len(s) >= 16
           /\ StrictDatePattern(SubSeq(s, 1, 10))
           /\ ValidDate(ToInt(s, 1, 4), ToInt(s, 6, 7), ToInt(s, 9, 10))
           /\ AllDigits(s, 12, 13) /\ s[14] = ":" /\ AllDigits(s, 15, 16)
           /\ hasSec => AllDigits(s, 18, 19)
           /\ ~hasSec /\ Len(s) >= 17 => s[17] \in {"+", "-", "Z", "z"}
           /\ ValidTime(ToInt(s, 12, 13), ToInt(s, 15, 16), sec)
           /\ tz.ok
        THEN Parsed([year |-> ToInt(s, 1, 4), month |-> ToInt(s, 6, 7),
                     day |-> ToInt(s, 9, 10), hour |-> ToInt(s, 12, 13),
                     minute |-> ToInt(s, 15, 16), second |-> sec,
                     aware |-> zoned, utcoffset |-> tz.off])
        ELSE Declined

isoparse(s) ==
    LET n      == Len(s)
        hasSec == CharAt(s, 17) = ":"
        tzPos  == IF hasSec THEN 20 ELSE 17
    IN  IF n = 10 THEN fromisoformat(s)
        ELSE IsoDateTime(s, hasSec, n >= tzPos,
                         IF n >= tzPos THEN ParseTz(SubSeq(s, tzPos, n))
                         ELSE [ok |-> TRUE, off |-> 0])

\* The three-field numeric date A/B/YYYY
SlashDate(s) ==
    /\ Len(s) = 10
    /\ AllDigits(s, 1, 2) /\ s[3] = "/"
    /\ AllDigits(s, 4, 5) /\ s[6] = "/"
    /\ AllDigits(s, 7, 10)

\* The relative words of the input grammar, as day offsets from RELATIVE_BASE
RelativeDays(s) ==
    CASE s = <<"y", "e", "s", "t", "e", "r", "d", "a", "y">> -> 0 - 1
      [] s = <<"t", "o", "d", "a", "y">> -> 0
      [] s = <<"t", "o", "m", "o", "r", "r", "o", "w">> -> 1
      [] OTHER -> 2

\* dateparser.parse(s, settings, languages=["en"]) on the input grammar:
\* DATE_ORDER decides A/B/YYYY, a relative word is RELATIVE_BASE moved by
\* whole days, anything else is None
dateparser_parse(s, prefer_dmy, relative_base) ==
    IF SlashDate(s)
    THEN LET a == ToInt(s, 1, 2)
             b == ToInt(s, 4, 5)
             y == ToInt(s, 7, 10)
             d == IF prefer_dmy THEN a ELSE b
             m == IF prefer_dmy THEN b ELSE a
         IN  IF ValidDate(y, m, d) THEN Parsed(Naive(y, m, d, 0, 0, 0))
             ELSE Declined
    ELSE IF RelativeDays(s) # 2
    THEN Parsed(AddDays(relative_base, RelativeDays(s)))
    ELSE Declined

\* dateutil.parser.parse(s, dayfirst, yearfirst=False, fuzzy=True) on the
\* input grammar: A/B/YYYY is day-first when asked and possible, or when A
\* cannot be a month; a string with no date token raises ParserError
du_parse(s, dayfirst) ==
    IF SlashDate(s)
    THEN LET a == ToInt(s, 1, 2)
             b == ToInt(s, 4, 5)
             y == ToInt(s, 7, 10)
             dmy == a > 12 \/ (dayfirst /\ b <= 12)
             d == IF dmy THEN a ELSE b
             m == IF dmy THEN b ELSE a
         IN  IF ValidDate(y, m, d) THEN Parsed(Naive(y, m, d, 0, 0, 0))
             ELSE Declined
    ELSE Declined

\* --------------------------------------------------------------- pipeline
VARIABLES isoDateOnly, clock, mode, call, resp, prev, fmt

vars == <<isoDateOnly, clock, mode, call, resp, prev, fmt>>

\* ISO_DATE_ONLY.match(s) once the name is bound
ISO_DATE_ONLY_match(s) == StrictDatePattern(s)

\* datetime.now(): the wall clock, one day per tick
datetime_now(c) == AddDays(Naive(2025, 12, 31, 10, 0, 0), c)

Returned(dt) == [kind |-> "dt", dt |-> dt, exc |-> ""]

ReturnedNone == [kind |-> "none", dt |-> NoDt, exc |-> ""]

Raised(exc) == [kind |-> "raise", dt |-> NoDt, exc |-> exc]

\* dt.replace(year=y): ValueError when the day does not exist in year y
replace_year(dt, y) ==
    IF ValidDate(y, dt.month, dt.day) THEN Returned([dt EXCEPT !.year = y])
    ELSE Raised("ValueError")

\* the stages of parse_fuzzy in their order: the first that parses returns
Stages(s1, s2, s3, s4, pin_year, year) ==
    IF s1.ok THEN Returned(s1.dt)
    ELSE IF s2.ok THEN Returned(s2.dt)
    ELSE IF s3.ok
    THEN (IF pin_year THEN replace_year(s3.dt, year) ELSE Returned(s3.dt))
    ELSE IF s4.ok THEN Returned(s4.dt)
    ELSE ReturnedNone

ParseFuzzyNow(q, prefer_dmy, assume_current_year, binding, now) ==
    LET s == strip(q)
    IN  IF q = <<>> \/ s = <<>> THEN ReturnedNone
        ELSE IF binding = "unbound" THEN Raised("NameError")
        ELSE Stages(IF ISO_DATE_ONLY_match(s) THEN fromisoformat(s) ELSE Declined,
                    IF Contains(s, "T") THEN isoparse(s) ELSE Declined,
                    dateparser_parse(s, prefer_dmy, now),
                    du_parse(s, prefer_dmy),
                    assume_current_year /\ ~YearRegexSearch(s),
                    now.year)

\* parse_fuzzy reads the module global and the wall clock where it runs
parse_fuzzy(q, prefer_dmy, assume_current_year, ref_tz) ==
    ParseFuzzyNow(q, prefer_dmy, assume_current_year, isoDateOnly,
                  datetime_now(clock))

has_time_part(q) ==
    LET s == strip(q)
    IN  IF TimeRegexSearch(s) THEN TRUE
        ELSE IF Contains(s, "T") /\ isoparse(s).ok THEN TRUE
        ELSE TRUE

normalize_date_only(dt) ==
    [Naive(dt.year, dt.month, dt.day, 0, 0, 0) EXCEPT !.aware = TRUE]

NoOut ==
    [iso_utc |-> <<>>, iso_in_tz |-> <<>>, has_time |-> FALSE,
     components |-> [year |-> 0, month |-> 0, day |-> 0,
                     hour |-> 0, minute |-> 0, second |-> 0]]

\* the pair (out, None)
Success(out) == [kind |-> "ok", out |-> out, input |-> <<>>, exc |-> ""]

\* the pair (None, {"error": "Could not parse date string", "input": q})
Failure(q) == [kind |-> "err", out |-> NoOut, input |-> q, exc |-> ""]

\* an exception that leaves build_response
Exception(exc) == [kind |-> "raise", out |-> NoOut, input |-> <<>>, exc |-> exc]

NoResp == [kind |-> "idle", out |-> NoOut, input |-> <<>>, exc |-> ""]

\* the dictionary `out` of build_response (unix_ms, a function of out_dt
\* beyond the integers of the model checker, is left out)
Render(out_dt, time_present) ==
    [iso_utc    |-> ReplaceUtcOffset(isoformat(AsTimezone(out_dt, 0))),
     iso_in_tz  |-> isoformat(out_dt),
     has_time   |-> time_present,
     components |-> [year |-> out_dt.year, month |-> out_dt.month,
                     day |-> out_dt.day, hour |-> out_dt.hour,
                     minute |-> out_dt.minute, second |-> out_dt.second]]

\* a faulty resolution: the offset written in the input is dropped and the
\* reference zone is applied to every time-bearing value
ResolveIso_IgnoreOffset(iso, parsed, time_present, explicit_offset, ref_tz, out_tz) ==
    LET ref_off == IF ref_tz # "" /\ ZoneKnown(ref_tz) THEN ZoneOffset(ref_tz) ELSE 0
        out_off == IF out_tz # "" THEN ZoneOffset(out_tz) ELSE 0
    IN  IF ~time_present THEN Returned(normalize_date_only(parsed))
        ELSE IF out_tz # "" /\ ~ZoneKnown(out_tz) THEN Raised("ZoneInfoNotFoundError")
        ELSE Returned(AsTimezone(ReplaceTz(parsed, ref_off), out_off))

\* ref_tz, out_tz: a zone key, or "" for None / an absent parameter.
\* Lines 77-100: out_dt, or the exception of ZoneInfo(out_tz), which raises
\* in the try of line 94 and again in line 97, or in line 100
ResolveIso(iso, parsed, time_present, explicit_offset, ref_tz, out_tz) ==
    LET \* `ref_zone or timezone.utc`, and the default of line 88
        ref_off == IF ref_tz # "" /\ ZoneKnown(ref_tz) THEN ZoneOffset(ref_tz) ELSE 0
        out_off == IF out_tz # "" THEN ZoneOffset(out_tz) ELSE 0
    IN  IF ~time_present THEN Returned(normalize_date_only(parsed))
        ELSE IF out_tz # "" /\ ~ZoneKnown(out_tz) THEN Raised("ZoneInfoNotFoundError")
        ELSE IF explicit_offset /\ iso.ok
        THEN Returned(AsTimezone(IF iso.dt.aware THEN iso.dt
                                 ELSE ReplaceTz(iso.dt, ref_off), out_off))
        ELSE Returned(AsTimezone(ReplaceTz(parsed, ref_off), out_off))

Resolve(q, parsed, time_present, explicit_offset, ref_tz, out_tz) ==
    ResolveIso(isoparse(q), parsed, time_present, explicit_offset, ref_tz, out_tz)

\* lines 71-72 and 102-112
Respond(q, parsed, out_dt, time_present) ==
    IF parsed.kind = "raise" THEN Exception(parsed.exc)
    ELSE IF parsed.kind = "none" THEN Failure(q)
    ELSE IF out_dt.kind = "raise" THEN Exception(out_dt.exc)
    ELSE Success(Render(out_dt.dt, time_present))

Resolved(q, parsed, time_present, ref_tz, out_tz) ==
    Respond(q, parsed,
            Resolve(q, parsed.dt, time_present, OffsetRegexSearch(strip(q)),
                    ref_tz, out_tz),
            time_present)

build_response(q, ref_tz, out_tz, prefer_dmy, assume_current_year) ==
    Resolved(q, parse_fuzzy(q, prefer_dmy, assume_current_year, ref_tz),
             has_time_part(q), ref_tz, out_tz)

\* -------------------------------------------------------------- documents
\* A JSON value is a tree: a function from key paths (<<>> is the value
\* itself) to nodes; a node is a mapping or a string leaf.
StrValue(chars) == [p \in {<<>>} |-> [t |-> "str", v |-> chars]]

EmptyDict == [p \in {<<>>} |-> [t |-> "dict", v |-> <<>>]]

\* isinstance(val, dict)
IsDict(val) == val[<<>>].t = "dict"

\* isinstance(val, dict) and key in val
HasKey(val, key) == IsDict(val) /\ <<key>> \in DOMAIN val

\* val[key]
Child(val, key) ==
    LET under == {r \in DOMAIN val : r # <<>> /\ r[1] = key}
    IN  [p \in {Tail(r) : r \in under} |-> val[<<key>> \o p]]

\* val[key] = sub
SetKey(val, key, sub) ==
    LET keep  == {r \in DOMAIN val : r = <<>> \/ r[1] # key}
        fresh == {<<key>> \o q : q \in DOMAIN sub}
    IN  [p \in keep \cup fresh |-> IF p \in fresh THEN sub[Tail(p)] ELSE val[p]]

\* bool(val) of a mapping or a string
Truthy(val) == IF IsDict(val) THEN DOMAIN val # {<<>>} ELSE val[<<>>].v # <<>>

\* str(raw) of a string leaf (the fields of the model address no mapping)
str(val) == IF IsDict(val) THEN <<"{", "}">> ELSE val[<<>>].v

deepcopy(val) == val

\* a path is path.split("."): the sequence of its keys
RECURSIVE _get_by_path(_, _)
_get_by_path(obj, path) ==
    IF path = <<>> THEN [found |-> TRUE, val |-> obj]
    ELSE IF HasKey(obj, Head(path)) THEN _get_by_path(Child(obj, Head(path)), Tail(path))
    ELSE [found |-> FALSE, val |-> EmptyDict]

RECURSIVE _set_by_path(_, _, _)
_set_by_path(obj, path, value) ==
    IF Len(path) = 1 THEN SetKey(obj, path[1], value)
    ELSE LET p   == Head(path)
             cur == IF HasKey(obj, p) /\ IsDict(Child(obj, p)) THEN Child(obj, p)
                    ELSE EmptyDict
         IN  SetKey(obj, p, _set_by_path(cur, Tail(path), value))

\* the entry {"error": "missing"} of meta
Missing == [kind |-> "missing", out |-> NoOut, input |-> <<>>, exc |-> ""]

\* meta[path] = entry on an insertion-ordered dict
MetaSet(meta, path, entry) ==
    IF \E k \in 1..Len(meta) : meta[k].path = path
    THEN [k \in 1..Len(meta) |->
            IF meta[k].path = path THEN [path |-> path, entry |-> entry] ELSE meta[k]]
    ELSE Append(meta, [path |-> path, entry |-> entry])

\* a faulty write-back: the converted value always replaces the original
WriteBack_InPlace(data, path, iso_in_tz, replace, suffix) ==
    _set_by_path(data, path, StrValue(iso_in_tz))

\* the write-back of format_endpoint for a converted field
WriteBack(data, path, iso_in_tz, replace, suffix) ==
    IF replace THEN _set_by_path(data, path, StrValue(iso_in_tz))
    ELSE IF Len(path) > 1
    THEN LET parent     == SubSeq(path, 1, Len(path) - 1)
             leaf       == path[Len(path)] \o suffix
             got        == _get_by_path(data, parent)
             parent_obj == IF got.found /\ Truthy(got.val) THEN got.val ELSE EmptyDict
         IN  _set_by_path(data, parent, SetKey(parent_obj, leaf, StrValue(iso_in_tz)))
    ELSE SetKey(data, path[1] \o suffix, StrValue(iso_in_tz))

\* a faulty pass: a value that failed to parse is blanked in the working copy
FieldOutcome_BlankOnError(data, meta, path, raw, r, replace, suffix) ==
    IF ~raw.found
    THEN [data |-> data, meta |-> MetaSet(meta, path, Missing), exc |-> ""]
    ELSE IF r.kind = "raise"
    THEN [data |-> data, meta |-> meta, exc |-> r.exc]
    ELSE IF r.kind = "err"
    THEN [data |-> _set_by_path(data, path, StrValue(<<"?">>)),
          meta |-> MetaSet(meta, path, r), exc |-> ""]
    ELSE [data |-> WriteBack(data, path, r.out.iso_in_tz, replace, suffix),
          meta |-> MetaSet(meta, path, r), exc |-> ""]

\* lines 163-187, with raw and the pair of build_response in hand: the
\* working copy and meta after the pass, or the exception that leaves the
\* handler
FieldOutcome(data, meta, path, raw, r, replace, suffix) ==
    IF ~raw.found
    THEN [data |-> data, meta |-> MetaSet(meta, path, Missing), exc |-> ""]
    ELSE IF r.kind = "raise"
    THEN [data |-> data, meta |-> meta, exc |-> r.exc]
    ELSE IF r.kind = "err"
    THEN [data |-> data, meta |-> MetaSet(meta, path, r), exc |-> ""]
    ELSE [data |-> WriteBack(data, path, r.out.iso_in_tz, replace, suffix),
          meta |-> MetaSet(meta, path, r), exc |-> ""]

FieldConvert(data, meta, path, raw, ref_tz, out_tz, prefer_dmy, assume_current_year, replace, suffix) ==
    FieldOutcome(data, meta, path, raw,
                 build_response(str(raw.val), ref_tz, out_tz, prefer_dmy,
                                assume_current_year),
                 replace, suffix)

\* one pass of the loop over fields
FieldStep(data, meta, path, ref_tz, out_tz, prefer_dmy, assume_current_year, replace, suffix) ==
    FieldConvert(data, meta, path, _get_by_path(data, path), ref_tz, out_tz,
                 prefer_dmy, assume_current_year, replace, suffix)

\* ----------------------------------------------------------------- inputs
Years == 2025..MaxYear

MonthDays == {<<9, 15>>, <<12, 31>>}

DateChars(y, m, d) == Pad4(y) \o <<"-">> \o Pad2(m) \o <<"-">> \o Pad2(d)

StrictDates == {DateChars(y, md[1], md[2]) : y \in Years, md \in MonthDays}

Times ==
    {<<"1", "5", ":", "0", "0">>,
     <<"2", "3", ":", "3", "0", ":", "0", "0">>}

ZoneSuffixes ==
    {<<>>, <<"Z">>, <<"+", "0", "9", ":", "0", "0">>, <<"-", "0", "7", "0", "0">>}

IsoDateTimes ==
    {d \o <<"T">> \o tm \o z : d \in StrictDates, tm \in Times, z \in ZoneSuffixes}

SlashDates == {<<"0", "3", "/", "0", "4", "/">> \o Pad4(y) : y \in Years}

RelativeWords ==
    {<<"y", "e", "s", "t", "e", "r", "d", "a", "y">>, <<"t", "o", "d", "a", "y">>}

Padded(S) == S \cup {<<" ">> \o s : s \in S} \cup {s \o <<" ">> : s \in S}

RawInputs ==
    {<<>>, <<" ">>, <<"x", "x">>}
    \cup Padded(StrictDates) \cup Padded(IsoDateTimes)
    \cup SlashDates \cup RelativeWords

\* request parameters: "" is an absent parameter, Mars/Olympus no zone.
\* prev is the response to the /parse request before the last one, which
\* had the same options; call.same says that it had the same q, and
\* call.of_iso_utc that q is the iso_utc of prev; call.at is the tick at
\* which the last request ran
RefZones == {"", "Asia/Tokyo", "Mars/Olympus"}

OutZones == {"", "America/Phoenix", "Mars/Olympus"}

NoCall ==
    [q |-> <<>>, ref_tz |-> "", out_tz |-> "", prefer_dmy |-> TRUE,
     assume_current_year |-> TRUE, same |-> FALSE, of_iso_utc |-> FALSE,
     at |-> 0]

\* documents and field lists of the batch requests
Dict1(k1, v1) == SetKey(EmptyDict, k1, v1)

Dict2(k1, v1, k2, v2) == SetKey(Dict1(k1, v1), k2, v2)

Dict3(k1, v1, k2, v2, k3, v3) == SetKey(Dict2(k1, v1, k2, v2), k3, v3)

NewYear == StrValue(DateChars(2025, 1, 1))

Afternoon ==
    StrValue(DateChars(2025, 9, 15) \o <<"T", "1", "5", ":", "0", "0", ":", "0", "0", "Z">>)

Garbage == StrValue(<<"x", "x">>)

Items ==
    {[data |-> Dict1("when", NewYear), fields |-> <<<<"when">>>>],
     [data |-> Dict2("event", Dict1("when", Afternoon), "id", Garbage),
      fields |-> <<<<"event", "when">>, <<"id">>>>],
     [data |-> Dict3("when", StrValue(<<>>), "id", Garbage, "event", EmptyDict),
      fields |-> <<<<"when">>, <<"gone", "when">>, <<"id", "x">>, <<"event", "when">>>>],
     [data |-> Dict2("when", NewYear, "when_local", Garbage),
      fields |-> <<<<"when_local">>, <<"when">>, <<"when">>>>],
     [data |-> Dict1("when", NewYear), fields |-> <<>>]}

RECURSIVE SeqsUpTo(_, _)
SeqsUpTo(S, n) ==
    IF n = 0 THEN {<<>>}
    ELSE LET shorter == SeqsUpTo(S, n - 1)
         IN  shorter \cup {Append(s, x) : s \in shorter, x \in S}

Suffixes == {"_local", ""}

NoFmt ==
    [phase |-> "idle", items |-> <<>>, ref_tz |-> "", out_tz |-> "",
     replace |-> FALSE, suffix |-> "", i |-> 0, j |-> 0, data |-> EmptyDict,
     meta |-> <<>>, result_items |-> <<>>, exc |-> ""]

\* ---------------------------------------------------------------- actions
Init ==
    /\ isoDateOnly = "unbound"
    /\ clock = 0
    /\ mode = "idle"
    /\ call = NoCall
    /\ resp = NoResp
    /\ prev = NoResp
    /\ fmt = NoFmt

InitStrict ==
    /\ isoDateOnly = "pattern"
    /\ clock = 0
    /\ mode = "idle"
    /\ call = NoCall
    /\ resp = NoResp
    /\ prev = NoResp
    /\ fmt = NoFmt

\* time passes between requests; the batch documents hold no relative
\* dates, so the clock is not read while a batch is converted
Tick ==
    /\ fmt.phase # "running"
    /\ clock < MaxClock
    /\ clock' = clock + 1
    /\ UNCHANGED <<isoDateOnly, mode, call, resp, prev, fmt>>

\* GET /parse: `out_tz = request.args.get("out_tz") or "UTC"`
ParseCall(c) ==
    build_response(c.q, c.ref_tz, IF c.out_tz = "" THEN "UTC" ELSE c.out_tz,
                   c.prefer_dmy, c.assume_current_year)

parse_endpoint ==
    /\ mode = "idle"
    /\ \E q \in RawInputs, ref_tz \in RefZones, out_tz \in OutZones,
          prefer_dmy \in BOOLEAN, assume_current_year \in BOOLEAN :
          /\ call' = [q |-> q, ref_tz |-> ref_tz, out_tz |-> out_tz,
                      prefer_dmy |-> prefer_dmy,
                      assume_current_year |-> assume_current_year,
                      same |-> FALSE, of_iso_utc |-> FALSE, at |-> clock]
          /\ resp' = ParseCall(call')
    /\ mode' = "parse"
    /\ prev' = NoResp
    /\ UNCHANGED <<isoDateOnly, clock, fmt>>

\* GET /parse once more with the options of the last request; q is the raw
\* input of the last request or the iso_utc of its response
parse_endpoint_again ==
    /\ mode = "parse"
    /\ \E q \in {call.q} \cup (IF resp.kind = "ok" THEN {resp.out.iso_utc} ELSE {}) :
          /\ call' = [call EXCEPT !.q = q, !.same = (q = call.q),
                                  !.of_iso_utc = (resp.kind = "ok" /\ q = resp.out.iso_utc),
                                  !.at = clock]
          /\ resp' = ParseCall(call')
    /\ prev' = resp
    /\ UNCHANGED <<isoDateOnly, clock, mode, fmt>>

\* POST /format up to the first pass of the loop over fields; the payloads
\* leave prefer_dmy and assume_current_year to their defaults
format_endpoint ==
    /\ mode = "idle"
    /\ \E items \in SeqsUpTo(Items, MaxItems), ref_tz \in {"", "Asia/Tokyo"},
          out_tz \in OutZones, replace \in BOOLEAN, suffix \in Suffixes :
          fmt' = [phase |-> IF items = <<>> THEN "done" ELSE "running",
                  items |-> items, ref_tz |-> ref_tz,
                  out_tz |-> IF out_tz = "" THEN "UTC" ELSE out_tz,
                  replace |-> replace, suffix |-> suffix,
                  i |-> IF items = <<>> THEN 0 ELSE 1, j |-> 1,
                  data |-> IF items = <<>> THEN EmptyDict
                           ELSE deepcopy(items[1].data),
                  meta |-> <<>>, result_items |-> <<>>, exc |-> ""]
    /\ mode' = "format"
    /\ UNCHANGED <<isoDateOnly, clock, call, resp, prev>>

\* an exception ends the handler; otherwise the loop moves to the next field
AfterField(f, step) ==
    IF step.exc # ""
    THEN [f EXCEPT !.phase = "raised", !.exc = step.exc]
    ELSE [f EXCEPT !.data = step.data, !.meta = step.meta, !.j = f.j + 1]

\* the loop body for fields[j] of items[i]
format_field ==
    /\ fmt.phase = "running"
    /\ fmt.j <= Len(fmt.items[fmt.i].fields)
    /\ fmt' = AfterField(fmt, FieldStep(fmt.data, fmt.meta,
                                        fmt.items[fmt.i].fields[fmt.j],
                                        fmt.ref_tz, fmt.out_tz, TRUE, TRUE,
                                        fmt.replace, fmt.suffix))
    /\ UNCHANGED <<isoDateOnly, clock, mode, call, resp, prev>>

\* result_items.append(...), then the next item or the response
format_item_done ==
    /\ fmt.phase = "running"
    /\ fmt.j > Len(fmt.items[fmt.i].fields)
    /\ LET results == Append(fmt.result_items, [data |-> fmt.data, meta |-> fmt.meta])
       IN  fmt' = IF fmt.i < Len(fmt.items)
                  THEN [fmt EXCEPT !.result_items = results, !.i = fmt.i + 1,
                                   !.j = 1, !.meta = <<>>,
                                   !.data = deepcopy(fmt.items[fmt.i + 1].data)]
                  ELSE [fmt EXCEPT !.result_items = results, !.phase = "done"]
    /\ UNCHANGED <<isoDateOnly, clock, mode, call, resp, prev>>

Next ==
    \/ Tick
    \/ parse_endpoint
    \/ parse_endpoint_again
    \/ format_endpoint
    \/ format_field
    \/ format_item_done

Spec == Init /\ [][Next]_vars

SpecStrict == InitStrict /\ [][Next]_vars

\* ----------------------------------------------------------------- claims
\* the options of the logged /parse request, as parse_endpoint passes them
CallOut == IF call.out_tz = "" THEN "UTC" ELSE call.out_tz

CallParsed == parse_fuzzy(call.q, call.prefer_dmy, call.assume_current_year, call.ref_tz)

BadZone(key) == key # "" /\ ~ZoneKnown(key)

\* a YYYY-MM-DD string that names a day of the calendar
StrictValid(s) ==
    StrictDatePattern(s) /\ ValidDate(ToInt(s, 1, 4), ToInt(s, 6, 7), ToInt(s, 9, 10))

\* YYYY-MM-DDTHH:MM[:SS]Z
ZuluDateTime(s) ==
    /\ Len(s) \in {17, 20}
    /\ StrictValid(SubSeq(s, 1, 10))
    /\ s[11] = "T"
    /\ AllDigits(s, 12, 13) /\ s[14] = ":" /\ AllDigits(s, 15, 16)
    /\ Len(s) = 20 => s[17] = ":" /\ AllDigits(s, 18, 19)
    /\ s[Len(s)] = "Z"

\* C1: build_response returns a success or a failure value carrying the
\* original input for every raw input and every combination of options, and
\* never raises; empty and whitespace-only input give the failure value.
C1_NeverRaises ==
    mode = "parse" =>
        /\ resp.kind \in {"ok", "err"}
        /\ resp.kind = "err" => resp.input = call.q
        /\ strip(call.q) = <<>> => resp.kind = "err"

\* C2: for a valid YYYY-MM-DD string parse_fuzzy returns a datetime whose
\* year, month and day are the digits of the string, for both values of
\* prefer_dmy.
C2_StrictDateLiteral ==
    LET s == strip(call.q)
    IN  mode = "parse" /\ StrictValid(s) =>
            /\ CallParsed.kind = "dt"
            /\ CallParsed.dt.year = ToInt(s, 1, 4)
            /\ CallParsed.dt.month = ToInt(s, 6, 7)
            /\ CallParsed.dt.day = ToInt(s, 9, 10)

\* C3: for a valid YYYY-MM-DD input and every known or absent reference and
\* target zone, build_response reports has_time = false and iso_utc is the
\* same date at T00:00:00Z.
C3_DateOnlyNoShift ==
    LET s == strip(call.q)
    IN  mode = "parse" /\ StrictValid(s) /\ ~BadZone(call.ref_tz) /\ ~BadZone(call.out_tz) =>
            /\ resp.kind = "ok"
            /\ resp.out.has_time = FALSE
            /\ resp.out.iso_utc =
                  s \o <<"T", "0", "0", ":", "0", "0", ":", "0", "0", "Z">>

\* C4: for an ISO date-time whose trimmed form ends in Z, with or without
\* whitespace around it, and every reference zone, the date and the clock
\* time of iso_utc are those written in the string.
C4_ZuluLiteral ==
    LET s == strip(call.q)
    IN  mode = "parse" /\ ZuluDateTime(s) /\ ~BadZone(call.out_tz) =>
            /\ resp.kind = "ok"
            /\ resp.out.iso_utc =
                  SubSeq(s, 1, 16)
                  \o (IF Len(s) = 20 THEN SubSeq(s, 17, 19) ELSE <<":", "0", "0">>)
                  \o <<"Z">>

RECURSIVE Dedup(_)
Dedup(s) ==
    IF s = <<>> THEN <<>>
    ELSE LET front == Dedup(SubSeq(s, 1, Len(s) - 1))
             last  == s[Len(s)]
         IN  IF \E k \in 1..Len(front) : front[k] = last THEN front
             ELSE Append(front, last)

MetaPaths(meta) == [k \in 1..Len(meta) |-> meta[k].path]

\* C5: the handler never stops on a field, and the meta of every processed
\* item holds one entry for each listed path, in the order listed.
C5_MetaPerPath ==
    /\ fmt.phase # "raised"
    /\ fmt.phase = "done" => Len(fmt.result_items) = Len(fmt.items)
    /\ \A k \in 1..Len(fmt.result_items) :
          MetaPaths(fmt.result_items[k].meta) = Dedup(fmt.items[k].fields)

MetaEntry(meta, path) == (CHOOSE k \in 1..Len(meta) : meta[k].path = path)

IsPrefix(a, b) == Len(a) <= Len(b) /\ SubSeq(b, 1, Len(a)) = a

\* the key the converted value goes to when replace is false
SiblingPath(path, suffix) ==
    SubSeq(path, 1, Len(path) - 1) \o <<path[Len(path)] \o suffix>>

\* a pass of the loop that converted fields[j] with replace = false kept the
\* value at the path, stored iso_in_tz under key + suffix beside it and
\* changed no other key
SiblingWriteStep(suffixes) ==
    LET path   == fmt.items[fmt.i].fields[fmt.j]
        target == SiblingPath(path, fmt.suffix)
        entry  == fmt'.meta[MetaEntry(fmt'.meta, path)].entry
        wrote  == /\ fmt.phase = "running" /\ fmt'.phase = "running"
                  /\ fmt'.i = fmt.i /\ fmt'.j = fmt.j + 1
                  /\ ~fmt.replace /\ fmt.suffix \in suffixes
                  /\ entry.kind = "ok"
    IN  wrote =>
           /\ _get_by_path(fmt'.data, path) = _get_by_path(fmt.data, path)
           /\ _get_by_path(fmt'.data, target) =
                 [found |-> TRUE, val |-> StrValue(entry.out.iso_in_tz)]
           /\ \A p \in DOMAIN fmt.data \cup DOMAIN fmt'.data :
                 ~IsPrefix(target, p) =>
                    /\ p \in DOMAIN fmt.data /\ p \in DOMAIN fmt'.data
                    /\ fmt'.data[p] = fmt.data[p]

AllFailed(meta) == \A k \in 1..Len(meta) : meta[k].entry.kind \in {"missing", "err"}

\* C7: an item whose listed paths are all missing or unparseable comes out
\* with data equal to its input data, whether replace is true or false.
C7_FailuresLeaveData ==
    \A k \in 1..Len(fmt.result_items) :
        AllFailed(fmt.result_items[k].meta) =>
            fmt.result_items[k].data = fmt.items[k].data

C7_Witness ==
    /\ fmt.replace
    /\ \E k \in 1..Len(fmt.result_items) :
          LET meta == fmt.result_items[k].meta
          IN  /\ AllFailed(meta)
              /\ \E a, b \in 1..Len(meta) :
                    meta[a].entry.kind = "missing" /\ meta[b].entry.kind = "err"
              /\ fmt.result_items[k].data = fmt.items[k].data

\* C8: when build_response succeeded with a time-bearing result, calling it
\* again on that result's iso_utc with the same options succeeds and gives
\* the same iso_utc.
C8_IsoUtcIdempotent ==
    mode = "parse" /\ call.of_iso_utc /\ prev.out.has_time =>
        /\ resp.kind = "ok"
        /\ resp.out.iso_utc = prev.out.iso_utc

C8_Witness ==
    /\ mode = "parse" /\ call.of_iso_utc /\ ~call.same /\ prev.out.has_time
    /\ call.ref_tz = "Asia/Tokyo" /\ call.out_tz = "America/Phoenix"
    /\ resp.kind = "ok"
    /\ resp.out.iso_utc = prev.out.iso_utc
    /\ resp.out.iso_utc = call.q

\* C9: with an unrecognized reference or target zone build_response returns,
\* for every parseable input, the success result it returns with that zone
\* set to UTC, and never raises or fails.
C9_BadZoneAsUtc ==
    (/\ mode = "parse" /\ call.at = clock
     /\ CallParsed.kind = "dt"
     /\ BadZone(call.ref_tz) \/ BadZone(call.out_tz))
    => /\ resp.kind = "ok"
       /\ resp = build_response(call.q,
                                IF BadZone(call.ref_tz) THEN "UTC" ELSE call.ref_tz,
                                IF BadZone(call.out_tz) THEN "UTC" ELSE CallOut,
                                call.prefer_dmy, call.assume_current_year)

\* C10: two invocations with the same raw input and the same options return
\* the same result, whatever the wall clock says at each.
C10_Deterministic == mode = "parse" /\ call.same => resp = prev

====
